---- MODULE Spec2Model ----
(***************************************************************************)
(* Model of sql.cpp: the command layer (insertUser, insertUsersBulk,       *)
(* updateUserAgeByName, getUsersByMinAge), the transaction coordinator     *)
(* demoTransaction and the driver main, running against one connection to  *)
(* a MySQL server that holds the table `users` created at lines 80-87.     *)
(*                                                                         *)
(* The server side of the connection is the session's view of the table    *)
(* (`table`), the durable content (`committed`), the autocommit mode, the  *)
(* AUTO_INCREMENT counter and LAST_INSERT_ID().  Every call on the         *)
(* connection takes a fault f: "ok" lets the statement run, "sql" makes    *)
(* the call throw an sql::SQLException, "std" makes it throw any other     *)
(* exception.  A call that throws has no effect on the server.             *)
(***************************************************************************)
EXTENDS Integers, Sequences, FiniteSets, TLC

\* Bounds of the model.
MaxId == 4      \* largest identifier AUTO_INCREMENT hands out
MaxBulk == 2    \* longest record list given to insertUsersBulk by the client

\* Values written in the source.
AliceAge == 24
BobAge == 29
AliceNewAge == 25
CarolAge == 32
MainMinAge == 25
BobNewAge == 31

Names == {"alice", "bob", "carol"}
Faults == {"ok", "sql", "std"}

VARIABLES
    table,       \* rows of `users` as this session sees them
    committed,   \* rows of `users` that are durable
    autocommit,  \* the connection's autocommit mode
    nextId,      \* the table's AUTO_INCREMENT counter
    lastId,      \* the session's LAST_INSERT_ID()
    op,          \* the operation the caller invoked last, with its arguments
    log,         \* the connection calls that operation has made so far
    err,         \* the exception the operation threw ([kind |-> "none"] if none)
    ret,         \* the value the operation returned
    out,         \* the vector<User> the last read returned
    txpc,        \* position inside demoTransaction
    caught,      \* the exception held by demoTransaction's handler
    mainpc,      \* position inside main ("none": main is not running)
    exitCode,    \* main's return value, -1 while it has not returned
    trail        \* the steps main has executed, each with its outcome

dbvars == <<table, committed, autocommit, nextId, lastId>>
vars == <<table, committed, autocommit, nextId, lastId, op, log, err, ret, out,
          txpc, caught, mainpc, exitCode, trail>>

-----------------------------------------------------------------------------
\* Exceptions.  `at` is the position in `log` of the call that threw.

NoError == [kind |-> "none", at |-> 0]
Raised(kind, at) == [kind |-> kind, at |-> at]

\* The exceptions `catch (const sql::SQLException&)` catches: a duplicate key
\* is reported by the server as an SQLException like any other database error.
IsSqlError(kind) == kind \in {"dup", "sql"}

-----------------------------------------------------------------------------
\* The server, as the statements of the source use it.

DB == [table |-> table, committed |-> committed, autocommit |-> autocommit,
       nextId |-> nextId, lastId |-> lastId]

\* A data-changing statement has produced session content t: under
\* autocommit it is durable at once.
Written(d, t) ==
    [d EXCEPT !.table = t,
              !.committed = IF d.autocommit THEN t ELSE d.committed]

\* setNull / setInt on the age placeholder: age 0 is bound as SQL NULL.
BindAge(age) ==
    IF age = 0 THEN [null |-> TRUE, v |-> 0] ELSE [null |-> FALSE, v |-> age]

\* setInt on the age placeholder of the UPDATE: always a value.
BindInt(age) == [null |-> FALSE, v |-> age]

ExecInsertNoUnique(d, name, col, f) ==
    IF f # "ok" THEN [db |-> d, res |-> f, id |-> 0]
    ELSE LET row == [id |-> d.nextId, name |-> name, age |-> col]
         IN  [db |-> [Written(d, d.table \cup {row})
                        EXCEPT !.nextId = d.nextId + 1, !.lastId = d.nextId],
              res |-> "ok", id |-> d.nextId]

\* INSERT INTO users(name, age) VALUES(?, ?) against the table of lines 80-87:
\* id is AUTO_INCREMENT, name is UNIQUE.  InnoDB takes the next counter value
\* before it checks the unique key, so a rejected insert uses one up; neither
\* that nor a rollback gives a value back.
ExecInsert(d, name, col, f) ==
    IF f # "ok" THEN [db |-> d, res |-> f, id |-> 0]
    ELSE IF \E r \in d.table : r.name = name
         THEN [db |-> [d EXCEPT !.nextId = d.nextId + 1], res |-> "dup", id |-> 0]
         ELSE LET row == [id |-> d.nextId, name |-> name, age |-> col]
              IN  [db |-> [Written(d, d.table \cup {row})
                             EXCEPT !.nextId = d.nextId + 1, !.lastId = d.nextId],
                   res |-> "ok", id |-> d.nextId]

ExecUpdateAllRows(d, name, col, f) ==
    IF f # "ok" THEN [db |-> d, res |-> f, n |-> 0]
    ELSE LET changed == {r \in d.table : r.age # col}
             t == {[r EXCEPT !.age = col] : r \in d.table}
         IN  [db |-> Written(d, t), res |-> "ok", n |-> Cardinality(changed)]

\* UPDATE users SET age = ? WHERE name = ?; the count the server reports
\* is the number of rows the statement changed.
ExecUpdate(d, name, col, f) ==
    IF f # "ok" THEN [db |-> d, res |-> f, n |-> 0]
    ELSE LET hit == {r \in d.table : r.name = name}
             changed == {r \in hit : r.age # col}
             t == (d.table \ hit) \cup {[r EXCEPT !.age = col] : r \in hit}
         IN  [db |-> Written(d, t), res |-> "ok", n |-> Cardinality(changed)]

RowBeforeIdDesc(r, q) ==
    \/ r.age.v > q.age.v
    \/ r.age.v = q.age.v /\ r.id > q.id

\* ORDER BY age DESC, id ASC
RowBefore(r, q) ==
    \/ r.age.v > q.age.v
    \/ r.age.v = q.age.v /\ r.id < q.id

RECURSIVE OrderBy(_)
OrderBy(S) ==
    IF S = {} THEN << >>
    ELSE LET first == CHOOSE r \in S : \A q \in S \ {r} : RowBefore(r, q)
         IN  <<first>> \o OrderBy(S \ {first})

\* WHERE age >= ?: the comparison of NULL with a number is not true.
WhereAgeAtLeast(d, minAge) ==
    {r \in d.table : ~r.age.null /\ r.age.v >= minAge}

\* The loop of lines 162-169: one User per row, a NULL age read as 0.
ReadUser(r) ==
    [id |-> r.id, name |-> r.name, age |-> IF r.age.null THEN 0 ELSE r.age.v]

\* con->setAutoCommit(b): switching autocommit on commits the open
\* transaction.
ConSetAutoCommit(d, b, f) ==
    IF f # "ok" THEN [db |-> d, res |-> f]
    ELSE [db |-> [d EXCEPT !.autocommit = b,
                           !.committed = IF b THEN d.table ELSE d.committed],
          res |-> "ok"]

\* con->commit()
ConCommit(d, f) ==
    IF f # "ok" THEN [db |-> d, res |-> f]
    ELSE [db |-> [d EXCEPT !.committed = d.table], res |-> "ok"]

\* con->rollback()
ConRollback(d, f) ==
    IF f # "ok" THEN [db |-> d, res |-> f]
    ELSE [db |-> [d EXCEPT !.table = d.committed], res |-> "ok"]

\* One entry of `log`.
Call(c, arg, res, id) == [call |-> c, arg |-> arg, res |-> res, id |-> id]

-----------------------------------------------------------------------------
\* The command layer.  Each operator gives the server state after the call,
\* the connection calls made, the exception thrown and the value returned.

InsertUser(d, u, f1, f2) ==
    LET a == ExecInsert(d, u.name, BindAge(u.age), f1)
        c1 == Call("insert", u.name, a.res, a.id)
    IN  IF a.res # "ok"
        THEN [db |-> a.db, calls |-> <<c1>>, err |-> Raised(a.res, 1), ret |-> 0]
        ELSE IF f2 # "ok"
             THEN [db |-> a.db, calls |-> <<c1, Call("lastInsertId", "", f2, 0)>>,
                   err |-> Raised(f2, 2), ret |-> 0]
             ELSE [db |-> a.db,
                   calls |-> <<c1, Call("lastInsertId", "", "ok", a.db.lastId)>>,
                   err |-> NoError, ret |-> a.db.lastId]

RECURSIVE BulkFrom(_, _, _, _, _, _)
BulkFrom(d, users, i, pos, kind, calls) ==
    IF i > Len(users)
    THEN [db |-> d, calls |-> calls, err |-> NoError, ret |-> 0]
    ELSE LET a == ExecInsert(d, users[i].name, BindAge(users[i].age),
                             IF i = pos THEN kind ELSE "ok")
             cs == Append(calls, Call("insert", users[i].name, a.res, a.id))
         IN  IF a.res # "ok"
             THEN [db |-> a.db, calls |-> cs, err |-> Raised(a.res, Len(cs)),
                   ret |-> 0]
             ELSE BulkFrom(a.db, users, i + 1, pos, kind, cs)

RECURSIVE BulkKeepGoing(_, _, _, _, _, _)
BulkKeepGoing(d, users, i, pos, kind, calls) ==
    IF i > Len(users)
    THEN [db |-> d, calls |-> calls, err |-> NoError, ret |-> 0]
    ELSE LET a == ExecInsert(d, users[i].name, BindAge(users[i].age),
                             IF i = pos THEN kind ELSE "ok")
             cs == Append(calls, Call("insert", users[i].name, a.res, a.id))
         IN  BulkKeepGoing(a.db, users, i + 1, pos, kind, cs)

InsertUsersBulkKeepGoing(d, users, pos, kind) ==
    BulkKeepGoing(d, users, 1, pos, kind, << >>)

\* The record at position pos meets fault `kind`; the others run.
InsertUsersBulk(d, users, pos, kind) ==
    BulkFrom(d, users, 1, pos, kind, << >>)

UpdateUserAgeByName(d, name, newAge, f) ==
    LET a == ExecUpdate(d, name, BindInt(newAge), f)
    IN  [db |-> a.db, calls |-> <<Call("update", name, a.res, 0)>>,
         err |-> IF a.res = "ok" THEN NoError ELSE Raised(a.res, 1),
         ret |-> a.n]

GetUsersByMinAge(d, minAge, f) ==
    IF f # "ok"
    THEN [db |-> d, calls |-> <<Call("select", "", f, 0)>>,
          err |-> Raised(f, 1), out |-> << >>]
    ELSE LET rows == OrderBy(WhereAgeAtLeast(d, minAge))
         IN  [db |-> d, calls |-> <<Call("select", "", "ok", 0)>>,
              err |-> NoError,
              out |-> [i \in 1..Len(rows) |-> ReadUser(rows[i])]]

-----------------------------------------------------------------------------
\* The state of the server after an operation.

SetDB(d) ==
    /\ table' = d.table
    /\ committed' = d.committed
    /\ autocommit' = d.autocommit
    /\ nextId' = d.nextId
    /\ lastId' = d.lastId

\* An operation record.  uname, num, users, inj are the arguments and the
\* faults given; ac0 is the autocommit mode when the operation started; again
\* says that the operation before was an insertUser of the same name whose
\* INSERT ran.
Op(name, uname, num, users, inj, again) ==
    [name |-> name, uname |-> uname, num |-> num, users |-> users,
     inj |-> inj, ac0 |-> autocommit, again |-> again]

-----------------------------------------------------------------------------
\* Inputs of a client that calls the command layer and the connection.

\* The client's calls either run or meet a database error; it catches nothing,
\* so the kind of the exception makes no difference to it.
ClientNames == {"alice", "bob"}
ClientFaults == {"ok", "sql"}
Users == [id : {0}, name : ClientNames, age : {0, BobAge}]
BulkPool ==
    {[id |-> 0, name |-> "alice", age |-> AliceAge],
     [id |-> 0, name |-> "bob", age |-> 0]}
BulkInputs == UNION {[1..n -> BulkPool] : n \in 0..MaxBulk}
NewAges == {AliceNewAge}
MinAges == {0, MainMinAge}

\* The demoTransaction positions at which no call of it is in progress.
NotInTx == {"idle", "returned", "raised"}

\* A client other than main owns the connection and no operation is running.
Client == mainpc = "none" /\ txpc \in NotInTx

\* The fault kinds a call at position pos of a record list can meet.
FaultsAt(pos) == IF pos = 0 THEN {"ok"} ELSE {"sql", "std"}

\* What every client operation leaves behind.
Finish(o, r, o_out) ==
    /\ SetDB(r.db)
    /\ op' = o
    /\ log' = r.calls
    /\ err' = r.err
    /\ ret' = r.ret
    /\ out' = o_out
    /\ txpc' = "idle"
    /\ caught' = NoError
    /\ UNCHANGED <<mainpc, exitCode, trail>>

ClientInsertOne(u, f1, f2) ==
    /\ Client
    /\ nextId <= MaxId
    /\ LET again == /\ op.name = "insertOne"
                    /\ op.uname = u.name
                    /\ log[1].res = "ok"
       IN  Finish(Op("insertOne", u.name, u.age, << >>, <<f1, f2>>, again),
                  InsertUser(DB, u, f1, f2), << >>)

ClientInsertMany(users, pos, kind) ==
    /\ Client
    /\ nextId + Len(users) <= MaxId + 1
    /\ Finish(Op("insertMany", "", 0, users, <<pos, kind>>, FALSE),
              InsertUsersBulk(DB, users, pos, kind), << >>)

ClientUpdate(name, newAge, f) ==
    /\ Client
    /\ Finish(Op("update", name, newAge, << >>, <<f>>, FALSE),
              UpdateUserAgeByName(DB, name, newAge, f), << >>)

ClientSelect(minAge, f) ==
    /\ Client
    /\ LET r == GetUsersByMinAge(DB, minAge, f)
       IN  Finish(Op("select", "", minAge, << >>, <<f>>, FALSE),
                  [db |-> r.db, calls |-> r.calls, err |-> r.err, ret |-> 0],
                  r.out)

\* The caller of the command layer controls the transactional scope.
ClientControl(c, a, f) ==
    /\ Client
    /\ Finish(Op(c, "", 0, << >>, <<f>>, FALSE),
              [db |-> a.db, calls |-> <<Call(c, "", a.res, 0)>>,
               err |-> IF a.res = "ok" THEN NoError ELSE Raised(a.res, 1),
               ret |-> 0],
              << >>)

ClientSetAutoCommit(b, f) ==
    ClientControl(IF b THEN "setAutoCommit(true)" ELSE "setAutoCommit(false)",
                  ConSetAutoCommit(DB, b, f), f)

ClientCommit(f) == ClientControl("commit", ConCommit(DB, f), f)

ClientRollback(f) == ClientControl("rollback", ConRollback(DB, f), f)

-----------------------------------------------------------------------------
\* demoTransaction, one action per connection call it makes.

\* The records of lines 184-187.
DemoUsers ==
    <<[id |-> 0, name |-> "alice", age |-> AliceAge],
      [id |-> 0, name |-> "bob", age |-> BobAge]>>

RouteIgnoreError(kind, okpc) == okpc

\* Where control goes after a call inside the try block (lines 182-200): on,
\* to the handler of line 201 for an sql::SQLException, out of the function
\* for any other exception.
Route(kind, okpc) ==
    IF kind = "ok" THEN okpc
    ELSE IF IsSqlError(kind) THEN "rollback" ELSE "raised"

TxStep(d, calls, pc, e, c) ==
    /\ SetDB(d)
    /\ log' = log \o calls
    /\ txpc' = pc
    /\ err' = e
    /\ caught' = c
    /\ UNCHANGED <<op, ret, out, mainpc, exitCode, trail>>

\* A call inside the try block has ended with `kind`, thrown by call `at`.
TryStep(d, calls, kind, at, okpc) ==
    LET pc == Route(kind, okpc)
    IN  TxStep(d, calls, pc,
               IF pc = "raised" THEN Raised(kind, at) ELSE NoError,
               IF pc = "rollback" THEN Raised(kind, at) ELSE NoError)

\* Line 180: con->setAutoCommit(false), outside the try block.
DemoBegin(f) ==
    /\ mainpc \in {"none", "demo"}
    /\ txpc \in (IF mainpc = "demo" THEN {"idle"} ELSE NotInTx)
    /\ nextId + 1 <= MaxId
    /\ LET a == ConSetAutoCommit(DB, FALSE, f)
       IN  /\ SetDB(a.db)
           /\ op' = Op("demoTransaction", "", 0, << >>, << >>, FALSE)
           /\ log' = <<Call("setAutoCommit(false)", "", a.res, 0)>>
           /\ txpc' = IF a.res = "ok" THEN "bulk" ELSE "raised"
           /\ err' = IF a.res = "ok" THEN NoError ELSE Raised(a.res, 1)
           /\ caught' = NoError
           /\ ret' = 0
           /\ out' = << >>
           /\ UNCHANGED <<mainpc, exitCode, trail>>

\* Lines 184-187: insertUsersBulk.
DemoBulk(pos, kind) ==
    /\ txpc = "bulk"
    /\ LET r == InsertUsersBulk(DB, DemoUsers, pos, kind)
       IN  TryStep(r.db, r.calls,
                   IF r.err.kind = "none" THEN "ok" ELSE r.err.kind,
                   Len(log) + r.err.at, "update")

\* Line 190: updateUserAgeByName(con, "alice", 25).
DemoUpdate(f) ==
    /\ txpc = "update"
    /\ LET r == UpdateUserAgeByName(DB, "alice", AliceNewAge, f)
       IN  TryStep(r.db, r.calls,
                   IF r.err.kind = "none" THEN "ok" ELSE r.err.kind,
                   Len(log) + 1, "commit")

\* Line 197: con->commit().
DemoCommit(f) ==
    /\ txpc = "commit"
    /\ LET a == ConCommit(DB, f)
       IN  TryStep(a.db, <<Call("commit", "", a.res, 0)>>, a.res,
                   Len(log) + 1, "seton")

\* Line 198: con->setAutoCommit(true), still inside the try block.
DemoSetOn(f) ==
    /\ txpc = "seton"
    /\ LET a == ConSetAutoCommit(DB, TRUE, f)
       IN  TryStep(a.db, <<Call("setAutoCommit(true)", "", a.res, 0)>>, a.res,
                   Len(log) + 1, "returned")

\* Lines 204-210: con->rollback(); an sql::SQLException it throws is printed
\* and dropped, any other exception leaves the handler.
DemoRollback(f) ==
    /\ txpc = "rollback"
    /\ LET a == ConRollback(DB, f)
       IN  IF a.res = "ok" \/ IsSqlError(a.res)
           THEN TxStep(a.db, <<Call("rollback", "", a.res, 0)>>, "restore",
                       NoError, caught)
           ELSE TxStep(a.db, <<Call("rollback", "", a.res, 0)>>, "raised",
                       Raised(a.res, Len(log) + 1), caught)

\* Lines 211-212: con->setAutoCommit(true); throw;
DemoRestore(f) ==
    /\ txpc = "restore"
    /\ LET a == ConSetAutoCommit(DB, TRUE, f)
       IN  TxStep(a.db, <<Call("setAutoCommit(true)", "", a.res, 0)>>, "raised",
                  IF a.res = "ok" THEN caught ELSE Raised(a.res, Len(log) + 1),
                  caught)

Demo ==
    \/ \E f \in Faults : DemoBegin(f)
    \/ \E pos \in 0..Len(DemoUsers) : \E kind \in FaultsAt(pos) :
         DemoBulk(pos, kind)
    \/ \E f \in Faults : DemoUpdate(f)
    \/ \E f \in Faults : DemoCommit(f)
    \/ \E f \in Faults : DemoSetOn(f)
    \/ \E f \in Faults : DemoRollback(f)
    \/ \E f \in Faults : DemoRestore(f)

-----------------------------------------------------------------------------
\* A client of the command layer, the connection and demoTransaction.

NoOp == [name |-> "none", uname |-> "", num |-> 0, users |-> << >>,
         inj |-> << >>, ac0 |-> TRUE, again |-> FALSE]

\* A fresh connection: autocommit is on.
Fresh ==
    /\ autocommit = TRUE
    /\ op = NoOp
    /\ log = << >>
    /\ err = NoError
    /\ ret = 0
    /\ out = << >>
    /\ txpc = "idle"
    /\ caught = NoError
    /\ exitCode = -1
    /\ trail = << >>

Init ==
    /\ Fresh
    /\ table = {}
    /\ committed = {}
    /\ nextId = 1
    /\ lastId = 0
    /\ mainpc = "none"

Next ==
    \/ \E u \in Users, f1 \in ClientFaults :
         \E f2 \in (IF f1 = "ok" THEN ClientFaults ELSE {"ok"}) :
           ClientInsertOne(u, f1, f2)
    \/ \E users \in BulkInputs, pos \in 0..MaxBulk :
         /\ pos <= Len(users)
         /\ \E kind \in (IF pos = 0 THEN {"ok"} ELSE {"sql"}) :
              ClientInsertMany(users, pos, kind)
    \/ \E name \in ClientNames, newAge \in NewAges, f \in ClientFaults :
         ClientUpdate(name, newAge, f)
    \/ \E minAge \in MinAges, f \in ClientFaults : ClientSelect(minAge, f)
    \/ \E b \in BOOLEAN : ClientSetAutoCommit(b, "ok")
    \/ ClientCommit("ok")
    \/ ClientRollback("ok")
    \/ Demo

Spec == Init /\ [][Next]_vars

-----------------------------------------------------------------------------
\* The command layer on any content of the table: the session starts on a
\* table that earlier runs have filled.

StoredAges == {BindAge(0), BindInt(0), BindInt(AliceNewAge), BindInt(BobAge)}
Slots == [id : 0..MaxId, age : StoredAges]

\* One row per name that has a slot with an identifier.
RowsOf(g) ==
    {[id |-> g[n].id, name |-> n, age |-> g[n].age] : n \in {m \in Names : g[m].id # 0}}

Tables ==
    {RowsOf(g) : g \in {h \in [Names -> Slots] :
                          \A m, n \in Names :
                            (m # n /\ h[m].id # 0) => h[m].id # h[n].id}}

ReadAges == {0, MainMinAge, BobAge + 1}

InitTable ==
    /\ Fresh
    /\ table \in Tables
    /\ committed = table
    /\ nextId = MaxId + 1
    /\ lastId = 0
    /\ mainpc = "none"

NextTable ==
    \/ \E minAge \in ReadAges, f \in ClientFaults : ClientSelect(minAge, f)
    \/ \E name \in Names, newAge \in NewAges, f \in ClientFaults :
         ClientUpdate(name, newAge, f)

SpecTable == InitTable /\ [][NextTable]_vars

-----------------------------------------------------------------------------
\* main.

MainSteps ==
    <<"connect", "ensure", "clear", "insert", "demo", "select", "update", "final">>

\* Lines 277-286: both handlers return 1.
ExitCodeFor(kind) == 1

\* A step of main outside the inner try block: an exception it throws ends
\* the outer try block.
MainDo(step, r, o_out, nextpc) ==
    /\ SetDB(r.db)
    /\ op' = Op(step, "", 0, << >>, << >>, FALSE)
    /\ log' = r.calls
    /\ err' = r.err
    /\ ret' = r.ret
    /\ out' = o_out
    /\ trail' = Append(trail, [step |-> step, res |-> r.err.kind])
    /\ mainpc' = IF r.err.kind = "none" THEN nextpc ELSE "exit"
    /\ exitCode' = IF r.err.kind = "none"
                   THEN (IF nextpc = "exit" THEN 0 ELSE -1)
                   ELSE ExitCodeFor(r.err.kind)
    /\ UNCHANGED <<txpc, caught>>

\* A statement that changes no row and returns nothing.
Plain(c, f) ==
    [db |-> DB, calls |-> <<Call(c, "", f, 0)>>,
     err |-> IF f = "ok" THEN NoError ELSE Raised(f, 1), ret |-> 0]

\* Lines 224-227: the driver instance and driver->connect.
MainConnect(f) ==
    /\ mainpc = "connect"
    /\ MainDo("connect", Plain("connect", f), << >>, "ensure")

\* Line 230: ensureSchemaAndTables; CREATE ... IF NOT EXISTS leaves the rows.
MainEnsure(f) ==
    /\ mainpc = "ensure"
    /\ MainDo("ensure", Plain("create", f), << >>, "clear")

\* Lines 233-236: DELETE FROM users.
MainClear(f) ==
    /\ mainpc = "clear"
    /\ MainDo("clear",
              IF f = "ok"
              THEN [Plain("delete", f) EXCEPT !.db = Written(DB, {})]
              ELSE Plain("delete", f),
              << >>, "insert")

\* Line 239: insertUser(con.get(), {0, "carol", 32}).
MainInsert(f1, f2) ==
    /\ mainpc = "insert"
    /\ MainDo("insert",
              InsertUser(DB, [id |-> 0, name |-> "carol", age |-> CarolAge], f1, f2),
              << >>, "demo")

MainDemoDoneNoCatch ==
    /\ mainpc = "demo"
    /\ txpc \in {"returned", "raised"}
    /\ trail' = Append(trail, [step |-> "demo", res |-> err.kind])
    /\ mainpc' = IF err.kind = "none" THEN "select" ELSE "exit"
    /\ exitCode' = IF err.kind = "none" THEN -1 ELSE ExitCodeFor(err.kind)
    /\ txpc' = "idle"
    /\ UNCHANGED <<dbvars, op, log, err, ret, out, caught>>

\* Lines 243-248: demoTransaction has returned or thrown; catch (...) takes
\* whatever it threw and main goes on.
MainDemoDone ==
    /\ mainpc = "demo"
    /\ txpc \in {"returned", "raised"}
    /\ trail' = Append(trail, [step |-> "demo", res |-> err.kind])
    /\ mainpc' = "select"
    /\ txpc' = "idle"
    /\ UNCHANGED <<dbvars, op, log, err, ret, out, caught, exitCode>>

\* Line 251: getUsersByMinAge(con.get(), 25).
MainSelect(f) ==
    /\ mainpc = "select"
    /\ LET r == GetUsersByMinAge(DB, MainMinAge, f)
       IN  MainDo("select",
                  [db |-> r.db, calls |-> r.calls, err |-> r.err, ret |-> 0],
                  r.out, "update")

\* Line 261: updateUserAgeByName(con.get(), "bob", 31).
MainUpdate(f) ==
    /\ mainpc = "update"
    /\ MainDo("update", UpdateUserAgeByName(DB, "bob", BobNewAge, f), << >>, "final")

\* Lines 265-275: SELECT id, name, age FROM users ORDER BY id, then return 0.
MainFinal(f) ==
    /\ mainpc = "final"
    /\ MainDo("final", Plain("selectAll", f), << >>, "exit")

\* The rows an earlier run of the program may have left.
EarlierRows ==
    {{}, {[id |-> 1, name |-> "bob", age |-> BindInt(BobNewAge)]}}

InitMain ==
    /\ Fresh
    /\ table \in EarlierRows
    /\ committed = table
    /\ nextId = Cardinality(table) + 1
    /\ lastId = 0
    /\ mainpc = "connect"

NextMain ==
    \/ \E f \in Faults : MainConnect(f)
    \/ \E f \in Faults : MainEnsure(f)
    \/ \E f \in Faults : MainClear(f)
    \/ \E f1 \in Faults : \E f2 \in (IF f1 = "ok" THEN Faults ELSE {"ok"}) :
         MainInsert(f1, f2)
    \/ Demo
    \/ MainDemoDone
    \/ \E f \in Faults : MainSelect(f)
    \/ \E f \in Faults : MainUpdate(f)
    \/ \E f \in Faults : MainFinal(f)

SpecMain == InitMain /\ [][NextMain]_vars

-----------------------------------------------------------------------------
\* Properties of demoTransaction.

Min(S) == CHOOSE x \in S : \A y \in S : x <= y

\* demoTransaction has returned or thrown.
TxDone == op.name = "demoTransaction" /\ txpc \in {"returned", "raised"}

\* The calls of the body: a record of the bulk insert, the update, the commit.
BodyCalls == {"insert", "update", "commit"}
FailedCalls == {i \in 1..Len(log) : log[i].res # "ok"}
FailedBodyCalls == {i \in FailedCalls : log[i].call \in BodyCalls}

\* The identifiers of the rows the operation has inserted.
InsertedIds ==
    {log[i].id : i \in {j \in 1..Len(log) : log[j].call = "insert" /\ log[j].res = "ok"}}

CallNames == [i \in 1..Len(log) |-> log[i].call]

\* The calls of a run in which nothing fails.
Happy ==
    <<"setAutoCommit(false)", "insert", "insert", "update", "commit",
      "setAutoCommit(true)">>
TheEnd == <<"rollback", "setAutoCommit(true)">>

IsPrefix(a, b) == Len(a) <= Len(b) /\ a = SubSeq(b, 1, Len(a))

\* Commit only after every earlier call succeeded, rollback only after a call
\* failed, no insert and no update after a commit or a rollback.
CommitAndRollbackInPlace ==
    \A i \in 1..Len(log) :
      /\ log[i].call = "commit" => \A j \in 1..(i - 1) : log[j].res = "ok"
      /\ log[i].call = "rollback" => \E j \in 1..(i - 1) : log[j].res # "ok"
      /\ log[i].call \in {"insert", "update"} =>
           \A j \in 1..(i - 1) : log[j].call \notin {"commit", "rollback"}

\* C1: when demoTransaction is called with autocommit on, autocommit is on
\* when it returns or throws, whatever each connection call did.
C1_AutocommitRestored == (TxDone /\ op.ac0) => autocommit

\* C2: when a body call of demoTransaction has failed and demoTransaction has
\* thrown, no row inserted by this invocation is visible and autocommit is on.
C2_FailedBodyLeavesNoRow ==
    (TxDone /\ txpc = "raised" /\ op.ac0 /\ FailedBodyCalls # {}) =>
        /\ \A r \in table : r.id \notin InsertedIds
        /\ \A r \in committed : r.id \notin InsertedIds
        /\ autocommit

\* C3: when a body call of demoTransaction has failed, the exception
\* demoTransaction throws is the one of that body call; after a database
\* error it has issued rollback and then setAutoCommit(true) before, and a
\* rollback that failed has not replaced the exception.
C3_OriginalErrorRaised ==
    (TxDone /\ txpc = "raised" /\ FailedBodyCalls # {}) =>
        LET k == Min(FailedBodyCalls)
        IN  /\ err = Raised(log[k].res, k)
            /\ IsSqlError(log[k].res) =>
                  SubSeq(CallNames, k + 1, Len(log)) = TheEnd

-----------------------------------------------------------------------------
\* Properties of the command layer.

NamedRows(t, name) == {r \in t : r.name = name}

\* C4 as stated: when insertUser is called twice in a row with the same name,
\* the second call fails with the duplicate-key error and afterwards no row of
\* that name is visible.
C4_NeitherRowVisible ==
    (op.name = "insertOne" /\ op.again /\ op.inj[1] = "ok") =>
        /\ err = Raised("dup", 1)
        /\ NamedRows(table, op.uname) = {}

\* C4 amended: when insertUser is called twice in a row with the same name,
\* the second call fails (with the duplicate-key error whenever its INSERT
\* reaches the server), adds no row and leaves the table as the first call
\* left it, so the row of the first call stays visible.
C4_SecondInsertRejected ==
    [][(op'.name = "insertOne" /\ op'.again) =>
          /\ err'.kind # "none"
          /\ op'.inj[1] = "ok" => err' = Raised("dup", 1)
          /\ table' = table
          /\ committed' = committed
          /\ Cardinality(NamedRows(table', op'.uname)) = 1
          /\ \A r \in NamedRows(table', op'.uname) : r.id = lastId']_vars

\* C4 witness: the second insertUser of a name has met the duplicate-key
\* error and the row of the first is in the table.
C4_Witness ==
    /\ op.name = "insertOne"
    /\ op.again
    /\ err = Raised("dup", 1)
    /\ \E r \in table : r.name = op.uname /\ r.id = lastId

\* C5: insertUser of a record followed by getUsersByMinAge(0) returns a record
\* with the name and the age of the record (0 for age 0) and the positive
\* identifier insertUser returned.
C5_InsertThenSelectReturnsRecord ==
    [][(/\ op.name = "insertOne" /\ err.kind = "none"
        /\ op'.name = "select" /\ op'.num = 0 /\ err'.kind = "none") =>
          /\ ret > 0
          /\ \E i \in 1..Len(out') :
               out'[i] = [id |-> ret, name |-> op.uname, age |-> op.num]]_vars

\* C6: getUsersByMinAge(minAge) returns exactly the rows whose stored age is
\* at least minAge, each once, by descending age and, for equal ages, by
\* ascending identifier.
C6_SelectFilteredAndOrdered ==
    (op.name = "select" /\ err.kind = "none") =>
        LET want == {r \in table : ~r.age.null /\ r.age.v >= op.num}
        IN  /\ Len(out) = Cardinality(want)
            /\ \A r \in want :
                 \E i \in 1..Len(out) :
                   out[i] = [id |-> r.id, name |-> r.name, age |-> r.age.v]
            /\ \A i \in 1..Len(out) : out[i].age >= op.num
            /\ \A i \in 1..(Len(out) - 1) :
                 \/ out[i].age > out[i + 1].age
                 \/ out[i].age = out[i + 1].age /\ out[i].id < out[i + 1].id

\* C6 witness: a read that left a row out and returned two rows of equal age.
C6_Witness ==
    /\ op.name = "select"
    /\ err.kind = "none"
    /\ Len(out) = 2
    /\ out[1].age = out[2].age
    /\ Cardinality(table) = 3

\* C7: updateUserAgeByName with a name no row carries returns 0, throws
\* nothing and changes no row; with a name a row carries it changes the age of
\* that row and nothing else.
C7_UpdateFrame ==
    [][(op'.name = "update" /\ op'.inj = <<"ok">>) =>
          LET hit == NamedRows(table, op'.uname)
          IN  /\ err'.kind = "none"
              /\ hit = {} => (ret' = 0 /\ table' = table /\ committed' = committed)
              /\ \A r \in table \ hit : r \in table'
              /\ \A r \in hit : [r EXCEPT !.age = BindInt(op'.num)] \in table'
              /\ Cardinality(table') = Cardinality(table)
              /\ <<autocommit', nextId', lastId'>> = <<autocommit, nextId, lastId>>]_vars

\* C7 witness: an update of a name that none of the rows of the table carries
\* has returned 0.
C7_Witness ==
    /\ op.name = "update"
    /\ op.inj = <<"ok">>
    /\ err.kind = "none"
    /\ ret = 0
    /\ table # {}
    /\ NamedRows(table, op.uname) = {}

\* The state insertUsersBulk leaves: one insert per record in input order up
\* to the first that failed, autocommit as it was, the rows inserted before
\* the failure in the table, and durable exactly if autocommit is on.
C10_BulkState ==
    op.name = "insertMany" =>
        LET k == Len(log)
        IN  /\ k <= Len(op.users)
            /\ \A i \in 1..k :
                 /\ log[i].call = "insert"
                 /\ log[i].arg = op.users[i].name
                 /\ i < k => log[i].res = "ok"
            /\ err.kind = "none" => k = Len(op.users) /\ FailedCalls = {}
            /\ err.kind # "none" => k >= 1 /\ err = Raised(log[k].res, k)
                                           /\ log[k].res # "ok"
            /\ autocommit = op.ac0
            /\ \A i \in 1..k : log[i].res = "ok" =>
                 LET row == [id |-> log[i].id, name |-> op.users[i].name,
                             age |-> BindAge(op.users[i].age)]
                 IN  /\ row \in table
                     /\ row \in committed <=> op.ac0

CommitCalls == {"commit", "setAutoCommit(true)"}

\* C10: insertUsersBulk makes one insert per record in input order, stops at
\* the first insert that fails, never changes autocommit and never commits or
\* rolls back: under autocommit the rows inserted before the failure are
\* durable, in an open transaction they are not, and they become durable only
\* by a commit of the caller.
C10_BulkLeavesScopeToCaller ==
    [][/\ C10_BulkState'
       /\ op'.name = "insertMany" =>
            /\ table \subseteq table'
            /\ committed \subseteq committed'
            /\ ~autocommit => committed' = committed
       /\ (~autocommit /\ committed' # committed) =>
            /\ Len(log') >= 1
            /\ log'[Len(log')].call \in CommitCalls
            /\ log'[Len(log')].res = "ok"]_vars

\* C10 witness: in an open transaction the second insert of a bulk insert
\* failed; the first row is in the table and is not durable.
C10_Witness ==
    /\ op.name = "insertMany"
    /\ ~op.ac0
    /\ Len(log) = 2
    /\ err.kind # "none"
    /\ \E r \in table : r.id = log[1].id /\ r \notin committed

-----------------------------------------------------------------------------
\* Properties of main.

\* C8: main returns 0 when every step succeeds and 1 when a step other than
\* demoTransaction throws; after that step no later step runs.  What
\* demoTransaction throws is caught: main goes on with the read and can still
\* return 0.
C8_ExitCode ==
    /\ mainpc # "exit" => exitCode = -1
    /\ Len(trail) <= Len(MainSteps)
    /\ \A i \in 1..Len(trail) : trail[i].step = MainSteps[i]
    /\ \A i \in 1..(Len(trail) - 1) :
         trail[i].res = "none" \/ trail[i].step = "demo"
    /\ (mainpc \notin {"connect", "exit"} /\ txpc \in NotInTx /\ mainpc # "demo") =>
         mainpc = MainSteps[Len(trail) + 1]
    /\ mainpc = "exit" =>
         LET last == trail[Len(trail)]
         IN  IF last.res = "none"
             THEN Len(trail) = Len(MainSteps) /\ exitCode = 0
             ELSE last.step # "demo" /\ exitCode = 1

\* C8 witness: demoTransaction threw and main returned 0.
C8_Witness ==
    /\ mainpc = "exit"
    /\ exitCode = 0
    /\ trail[5].step = "demo"
    /\ trail[5].res # "none"

====
